---------------------------- MODULE Spec2Model ----------------------------
(***************************************************************************)
(* Model of hermes/src/store/types.rs: the Wormhole payload decoder, the   *)
(* accumulator ring index, the message identity/time derivation and the    *)
(* MessageTime ordering, together with the time-series store and the       *)
(* ingestion pipeline that the specification builds on these types.        *)
(*                                                                         *)
(* TLC integers are 32-bit, so the u64/u32 inputs drawn below are the ones *)
(* whose value is below 2^31; the byte-level arithmetic is the code's.     *)
(***************************************************************************)
EXTENDS Integers, Sequences, FiniteSets, TLC

VARIABLES
    bytes,      \* try_from_bytes: the `bytes` argument
    vaa_bytes,  \* try_from_bytes: the `vaa_bytes` argument
    decoded,    \* try_from_bytes: <<>> before the call, <<outcome>> after
    acc,        \* an AccumulatorMessages value
    ring,       \* ring_index: <<>> before the call, <<outcome>> after
    margs,      \* two argument tuples for MessageState::new
    mstates,    \* the two MessageStates built from margs (<<>> before)
    ord,        \* the MessageTime comparisons of the two (<<>> before)
    store,      \* TimeSeriesStore: MessageIdentifier -> sorted series
    last,       \* the last store operation and what it returned
    pc,         \* ingestion pipeline: position of the single writer
    update,     \* ingestion pipeline: the Update in flight
    staged,     \* ingestion pipeline: records parsed and proof-bound so far
    nupd        \* ingestion pipeline: Updates received so far

vars == <<bytes, vaa_bytes, decoded, acc, ring, margs, mstates, ord,
          store, last, pc, update, staged, nupd>>

decodeVars == <<bytes, vaa_bytes, decoded>>
ringVars == <<acc, ring>>
messageVars == <<margs, mstates, ord>>
storeVars == <<store, last>>
pipeVars == <<pc, update, staged, nupd>>

---------------------------------------------------------------------------
(* Outcomes of a Rust call: a returned value, a returned error, a panic.   *)

Ok(v) == [kind |-> "Ok", val |-> <<v>>, err |-> ""]
Err(msg) == [kind |-> "Err", val |-> <<>>, err |-> msg]
Panic(msg) == [kind |-> "Panic", val |-> <<>>, err |-> msg]

---------------------------------------------------------------------------
(* PayloadDecoder: WormholePayload::try_from_bytes                         *)

\* 0x41555756
MAGIC == 1096111958

PAYLOAD_LEN == 37

\* bytes[a..b] of a Rust slice (0-based, half-open); panics past the end.
Slice(s, a, b) ==
    IF b > Len(s) \/ a > b THEN Panic("slice index out of range")
    ELSE Ok(SubSeq(s, a + 1, b))

\* <[u8; n]>::try_from(&[u8]): an error unless the slice has n elements.
TryInto(s, n) ==
    IF Len(s) # n THEN Err("could not convert slice to array") ELSE Ok(s)

RECURSIVE from_le_bytes(_)
from_le_bytes(bs) ==
    IF bs = <<>> THEN 0 ELSE Head(bs) + 256 * from_le_bytes(Tail(bs))

\* uN::from_be_bytes: the first byte is the most significant.
RECURSIVE from_be_bytes(_)
from_be_bytes(bs) ==
    IF bs = <<>> THEN 0
    ELSE from_be_bytes(SubSeq(bs, 1, Len(bs) - 1)) * 256 + bs[Len(bs)]

\* bytes[a..b].try_into()? : the array, or the outcome that ends the call.
ArrayAt(s, a, b) ==
    LET sl == Slice(s, a, b)
    IN  IF sl.kind # "Ok" THEN sl ELSE TryInto(sl.val[1], b - a)

WormholeMerkleProof(root, slot, ring_size, vaa) ==
    [root |-> root, slot |-> slot, ring_size |-> ring_size, vaa |-> vaa]

\* The same function with the message-type check ahead of the magic check.
try_from_bytes_type_first(bs, vaa) ==
    IF Len(bs) # PAYLOAD_LEN THEN Err("Invalid message length")
    ELSE IF bs[5] # 0 THEN Err("Invalid message type")
    ELSE IF from_be_bytes(SubSeq(bs, 1, 4)) # MAGIC THEN Err("Invalid magic")
    ELSE Ok(WormholeMerkleProof(SubSeq(bs, 18, 37),
                                from_be_bytes(SubSeq(bs, 6, 13)),
                                from_be_bytes(SubSeq(bs, 14, 17)), vaa))

\* The same function without the length check.
try_from_bytes_no_length_check(bs, vaa) ==
    LET m == ArrayAt(bs, 0, 4)
        t == ArrayAt(bs, 4, 5)
        s == ArrayAt(bs, 5, 13)
        r == ArrayAt(bs, 13, 17)
        d == ArrayAt(bs, 17, 37)
    IN  IF m.kind # "Ok" THEN m
        ELSE IF from_be_bytes(m.val[1]) # MAGIC THEN Err("Invalid magic")
        ELSE IF t.kind # "Ok" THEN t
        ELSE IF from_be_bytes(t.val[1]) # 0 THEN Err("Invalid message type")
        ELSE IF s.kind # "Ok" THEN s
        ELSE IF r.kind # "Ok" THEN r
        ELSE IF d.kind # "Ok" THEN d
        ELSE Ok(WormholeMerkleProof(d.val[1], from_be_bytes(s.val[1]),
                                    from_be_bytes(r.val[1]), vaa))

try_from_bytes(bs, vaa) ==
    IF Len(bs) # PAYLOAD_LEN THEN Err("Invalid message length")
    ELSE
    LET m == ArrayAt(bs, 0, 4)
        t == ArrayAt(bs, 4, 5)
        s == ArrayAt(bs, 5, 13)
        r == ArrayAt(bs, 13, 17)
        d == ArrayAt(bs, 17, 37)
    IN  IF m.kind # "Ok" THEN m
        ELSE IF from_be_bytes(m.val[1]) # MAGIC THEN Err("Invalid magic")
        ELSE IF t.kind # "Ok" THEN t
        ELSE IF from_be_bytes(t.val[1]) # 0 THEN Err("Invalid message type")
        ELSE IF s.kind # "Ok" THEN s
        ELSE IF r.kind # "Ok" THEN r
        ELSE IF d.kind # "Ok" THEN d
        ELSE Ok(WormholeMerkleProof(d.val[1], from_be_bytes(s.val[1]),
                                    from_be_bytes(r.val[1]), vaa))

(* Inputs of the decoder. *)

Rep(b, n) == [i \in 1..n |-> b]

MagicChoices ==
    { <<65, 85, 87, 86>>,      \* 0x41555756
      <<86, 87, 85, 65>>,      \* the magic, byte-reversed
      <<65, 85, 87, 87>>,
      <<0, 0, 0, 0>> }

TypeChoices == {0, 1, 255}

SlotChoices ==
    { Rep(0, 8),
      <<0, 0, 0, 0, 0, 0, 0, 130>>,
      <<0, 0, 0, 0, 1, 2, 3, 4>>,
      <<0, 0, 0, 0, 127, 255, 255, 255>> }

RingChoices ==
    { Rep(0, 4), <<0, 0, 0, 64>>, <<1, 2, 3, 4>>, <<127, 255, 255, 255>> }

RootChoices == { Rep(0, 20), [i \in 1..20 |-> i], Rep(255, 20) }

VaaChoices == { <<>>, <<1>>, <<1, 0, 255>> }

\* Buffers are cut or padded to every length within MaxLenDelta of 37, and
\* to the lengths 0..MaxShortLen.
MaxLenDelta == 1
MaxShortLen == 5

Lengths ==
    (0..MaxShortLen) \cup ((PAYLOAD_LEN - MaxLenDelta)..(PAYLOAD_LEN + MaxLenDelta))

Resize(s, n) ==
    IF n <= Len(s) THEN SubSeq(s, 1, n) ELSE s \o Rep(7, n - Len(s))

Buffers ==
    { Resize(m \o <<t>> \o s \o r \o d, n) :
        m \in MagicChoices, t \in TypeChoices, s \in SlotChoices,
        r \in RingChoices, d \in RootChoices, n \in Lengths }

ParkedDecode == bytes = <<>> /\ vaa_bytes = <<>> /\ decoded = <<>>
ParkedRing == acc = <<>> /\ ring = <<>>
ParkedMessage == margs = <<>> /\ mstates = <<>> /\ ord = <<>>
ParkedStore == store = <<>> /\ last = <<>>
ParkedPipe == pc = "off" /\ update = <<>> /\ staged = <<>> /\ nupd = 0

InitDecode ==
    /\ bytes \in Buffers
    /\ vaa_bytes \in VaaChoices
    /\ decoded = <<>>
    /\ ParkedRing /\ ParkedMessage /\ ParkedStore /\ ParkedPipe

Decode ==
    /\ decoded = <<>>
    /\ decoded' = <<try_from_bytes(bytes, vaa_bytes)>>
    /\ UNCHANGED <<bytes, vaa_bytes, ringVars, messageVars, storeVars, pipeVars>>

NextDecode == Decode

SpecDecode == InitDecode /\ [][NextDecode]_vars

---------------------------------------------------------------------------
(* AccumulatorMessages::ring_index                                         *)

AccumulatorMessages(magic, slot, ring_size, messages) ==
    [magic |-> magic, slot |-> slot, ring_size |-> ring_size,
     messages |-> messages]

\* `x as u32` of a non-negative x: the low 32 bits, as two 16-bit halves.
as_u32(x) == (x % 65536) + 65536 * ((x \div 65536) % 65536)

\* The operands of % exchanged.
ring_index_swapped(am) ==
    IF am.slot = 0
    THEN Panic("attempt to calculate the remainder with a divisor of zero")
    ELSE Ok(as_u32(am.ring_size % am.slot))

\* (self.slot % self.ring_size as u64) as u32; the widening cast keeps the
\* value, and % panics on a zero divisor in every build profile.
ring_index(am) ==
    IF am.ring_size = 0
    THEN Panic("attempt to calculate the remainder with a divisor of zero")
    ELSE Ok(as_u32(am.slot % am.ring_size))

MaxRingSlot == 12
MaxRingSize == 5

\* 2147483647 = 2^31 - 1, the largest value TLC's integers hold.
RingSlots == (0..MaxRingSlot) \cup {130, 131, 65536, 2147483647}
RingSizes == (0..MaxRingSize) \cup {64, 65536, 2147483647}

InitRing ==
    /\ acc \in { AccumulatorMessages(<<65, 85, 87, 86>>, s, r, <<>>) :
                    s \in RingSlots, r \in RingSizes }
    /\ ring = <<>>
    /\ ParkedDecode /\ ParkedMessage /\ ParkedStore /\ ParkedPipe

RingIndex ==
    /\ ring = <<>>
    /\ ring' = <<ring_index(acc)>>
    /\ UNCHANGED <<acc, decodeVars, messageVars, storeVars, pipeVars>>

NextRing == RingIndex

SpecRing == InitRing /\ [][NextRing]_vars

\* C3: with ring_size > 0, ring_index returns slot mod ring_size, a value
\* below ring_size; slot = 130 and ring_size = 64 give 2.
C3_RingIndexIsSlotModRingSize ==
    (ring # <<>> /\ acc.ring_size > 0) =>
        /\ ring[1].kind = "Ok"
        /\ LET i == ring[1].val[1]
           IN  /\ 0 <= i /\ i < acc.ring_size
               /\ (acc.slot - i) % acc.ring_size = 0
               /\ (acc.slot = 130 /\ acc.ring_size = 64) => i = 2

C3_Witness ==
    /\ ring # <<>> /\ acc.slot = 130 /\ acc.ring_size = 64
    /\ ring[1] = Ok(2)

\* C4: with ring_size = 0, ring_index returns an InvalidRingConfiguration
\* error to the caller: no panic, no index.
C4_ZeroRingSizeIsError ==
    (ring # <<>> /\ acc.ring_size = 0) =>
        ring[1].kind = "Err" /\ ring[1].err = "InvalidRingConfiguration"

---------------------------------------------------------------------------
(* MessageCodec: impl MessageExt for Message; MessageState; MessageTime    *)

MessageTypes == {"PriceFeedMessage", "TwapMessage"}

\* pyth_oracle::Message, as far as this file reads it: the variant and the
\* variant's `id` and `publish_time` fields.
Message(variant, id, publish_time) ==
    [variant |-> variant, id |-> id, publish_time |-> publish_time]

Message_type_(m) ==
    CASE m.variant = "PriceFeedMessage" -> "PriceFeedMessage"
      [] m.variant = "TwapMessage" -> "TwapMessage"

\* id() with the kind left out of the identifier.
Message_id_untyped(m) ==
    [price_id |-> m.id, type_ |-> "PriceFeedMessage"]

Message_id(m) ==
    [price_id |-> m.id, type_ |-> Message_type_(m)]

Message_publish_time(m) == m.publish_time

MessageTime(publish_time, slot) ==
    [publish_time |-> publish_time, slot |-> slot]

MessageState_new(message, raw_message, proof_set, slot) ==
    [publish_time |-> Message_publish_time(message),
     slot |-> slot,
     id |-> Message_id(message),
     message |-> message,
     raw_message |-> raw_message,
     proof_set |-> proof_set]

MessageState_time(ms) == MessageTime(ms.publish_time, ms.slot)

MessageState_key(ms) == ms.id

\* Ord::cmp of two integers.
IntCmp(x, y) == IF x < y THEN "Less" ELSE IF x = y THEN "Equal" ELSE "Greater"

\* The ordering with the fields compared in the other order.
MessageTime_cmp_slot_first(a, b) ==
    IF IntCmp(a.slot, b.slot) # "Equal" THEN IntCmp(a.slot, b.slot)
    ELSE IntCmp(a.publish_time, b.publish_time)

\* #[derive(PartialOrd, Ord)]: lexicographic in the order the fields are
\* declared, publish_time (i64) and then slot (u64).
MessageTime_cmp(a, b) ==
    IF IntCmp(a.publish_time, b.publish_time) # "Equal"
    THEN IntCmp(a.publish_time, b.publish_time)
    ELSE IntCmp(a.slot, b.slot)

\* #[derive(PartialEq, Eq)]: every field equal.
MessageTime_eq(a, b) == a.publish_time = b.publish_time /\ a.slot = b.slot

MaxFeed == 2
MaxAbsTime == 1
MaxMsgSlot == 2

FeedIds == 1..MaxFeed
MsgTimes == (-MaxAbsTime)..MaxAbsTime
MsgSlots == 0..MaxMsgSlot
RawAndProof ==
    { [raw |-> <<1>>, proof |-> [wormhole_merkle_proof |-> "proofA"]],
      [raw |-> <<2, 3>>, proof |-> [wormhole_merkle_proof |-> "proofB"]] }

NewArgs ==
    { [message |-> Message(v, f, t), raw_message |-> rp.raw,
       proof_set |-> rp.proof, slot |-> s] :
        v \in MessageTypes, f \in FeedIds, t \in MsgTimes,
        s \in MsgSlots, rp \in RawAndProof }

InitMessage ==
    /\ margs \in [1..2 -> NewArgs]
    /\ mstates = [i \in 1..2 |-> <<>>]
    /\ ord = <<>>
    /\ ParkedDecode /\ ParkedRing /\ ParkedStore /\ ParkedPipe

New(i) ==
    /\ mstates[i] = <<>>
    /\ mstates' = [mstates EXCEPT ![i] =
                     <<MessageState_new(margs[i].message, margs[i].raw_message,
                                        margs[i].proof_set, margs[i].slot)>>]
    /\ UNCHANGED <<margs, ord, decodeVars, ringVars, storeVars, pipeVars>>

Compare ==
    /\ ord = <<>>
    /\ \A i \in 1..2 : mstates[i] # <<>>
    /\ LET a == MessageState_time(mstates[1][1])
           b == MessageState_time(mstates[2][1])
       IN  ord' = [ab |-> MessageTime_cmp(a, b), ba |-> MessageTime_cmp(b, a),
                   eq |-> MessageTime_eq(a, b)]
    /\ UNCHANGED <<margs, mstates, decodeVars, ringVars, storeVars, pipeVars>>

NextMessage == (\E i \in 1..2 : New(i)) \/ Compare

SpecMessage == InitMessage /\ [][NextMessage]_vars

\* C5: MessageState::new(message, raw_message, proof_set, slot) has id the
\* feed id embedded in the message plus the message's kind, publish_time
\* the message's, slot/raw_message/proof_set the arguments; key() is the
\* id and time() is (publish_time, slot); equal arguments give equal
\* records, and the id does not depend on slot or publish_time.
C5_NewDerivesIdAndTime ==
    /\ \A i \in 1..2 :
          mstates[i] # <<>> =>
             LET ms == mstates[i][1]
                 a == margs[i]
             IN  /\ ms.id.price_id = a.message.id
                 /\ ms.id.type_ = a.message.variant
                 /\ DOMAIN ms.id = {"price_id", "type_"}
                 /\ ms.publish_time = a.message.publish_time
                 /\ ms.slot = a.slot
                 /\ ms.message = a.message
                 /\ ms.raw_message = a.raw_message
                 /\ ms.proof_set = a.proof_set
                 /\ MessageState_key(ms) = ms.id
                 /\ MessageState_time(ms).publish_time = a.message.publish_time
                 /\ MessageState_time(ms).slot = a.slot
    /\ (mstates[1] # <<>> /\ mstates[2] # <<>>) =>
          /\ margs[1] = margs[2] => mstates[1] = mstates[2]
          /\ mstates[1][1].id = mstates[2][1].id
                <=> /\ margs[1].message.id = margs[2].message.id
                    /\ margs[1].message.variant = margs[2].message.variant

C5_Witness ==
    /\ mstates[1] # <<>> /\ mstates[2] # <<>>
    /\ margs[1].message.variant = "TwapMessage"
    /\ margs[1].slot # margs[2].slot
    /\ margs[1].message.publish_time # margs[2].message.publish_time
    /\ mstates[1][1].id = mstates[2][1].id
    /\ mstates[1][1].id.type_ = "TwapMessage"

\* C6: MessageTime is totally ordered by publish_time first (signed, so
\* negative before non-negative) and slot second: a < b iff
\* a.publish_time < b.publish_time, or the publish_times are equal and
\* a.slot < b.slot; a = b iff both fields are equal.
C6_MessageTimeOrder ==
    ord # <<>> =>
        LET a == MessageTime(margs[1].message.publish_time, margs[1].slot)
            b == MessageTime(margs[2].message.publish_time, margs[2].slot)
            lt(x, y) == \/ x.publish_time < y.publish_time
                        \/ x.publish_time = y.publish_time /\ x.slot < y.slot
        IN  /\ ord.ab = "Less" <=> lt(a, b)
            /\ ord.ab = "Greater" <=> lt(b, a)
            /\ ord.ab = "Equal" <=> (a.publish_time = b.publish_time /\ a.slot = b.slot)
            /\ ord.eq <=> ord.ab = "Equal"
            /\ ord.ba = "Less" <=> ord.ab = "Greater"
            /\ ord.ba = "Greater" <=> ord.ab = "Less"
            /\ (a.publish_time < 0 /\ b.publish_time >= 0) => ord.ab = "Less"

C6_Witness ==
    /\ ord # <<>>
    /\ margs[1].message.publish_time = -1 /\ margs[1].slot = 2
    /\ margs[2].message.publish_time = 0 /\ margs[2].slot = 0
    /\ ord.ab = "Less" /\ ord.ba = "Greater" /\ ~ord.eq

---------------------------------------------------------------------------
(* TimeSeriesStore: MessageIdentifier -> series of MessageState, ascending *)
(* by MessageTime. upsert_batch and query are the specification's (4.5);   *)
(* the records, their keys and their order are those of types.rs.          *)

MessageIdentifier(price_id, type_) == [price_id |-> price_id, type_ |-> type_]

IdX == MessageIdentifier(1, "PriceFeedMessage")
IdY == MessageIdentifier(1, "TwapMessage")
StoreIds == {IdX, IdY}
IdOrder == <<IdX, IdY>>

EmptyStore == [id \in StoreIds |-> <<>>]

\* The series with r placed before the first entry that sorts after it.
RECURSIVE InsertSorted(_, _)
InsertSorted(series, r) ==
    IF series = <<>> THEN <<r>>
    ELSE IF MessageTime_cmp(MessageState_time(r),
                            MessageState_time(Head(series))) = "Less"
         THEN <<r>> \o series
         ELSE <<Head(series)>> \o InsertSorted(Tail(series), r)

SameSlot(e, r) == e.slot = r.slot

\* Insert-or-replace keyed by MessageTime instead of by slot.
Replaces_by_time(e, r) == MessageState_time(e) = MessageState_time(r)

\* The entry of a series that a record replaces: the one at the record's slot.
Replaces(e, r) == SameSlot(e, r)

upsert_one(st, r) ==
    LET k == MessageState_key(r)
        kept == SelectSeq(st[k], LAMBDA e : ~Replaces(e, r))
    IN  [st EXCEPT ![k] = InsertSorted(kept, r)]

RECURSIVE upsert_batch(_, _)
upsert_batch(st, records) ==
    IF records = <<>> THEN st
    ELSE upsert_batch(upsert_one(st, Head(records)), Tail(records))

Latest == [kind |-> "Latest", t |-> 0]
FirstAfter(t) == [kind |-> "FirstAfter", t |-> t]

RECURSIVE FirstAtOrAfter(_, _)
FirstAtOrAfter(series, t) ==
    IF series = <<>> THEN <<>>
    ELSE IF Head(series).publish_time >= t THEN <<Head(series)>>
    ELSE FirstAtOrAfter(Tail(series), t)

\* query(id, when): <<>> for nothing, <<entry>> otherwise.
query(st, id, when) ==
    IF when.kind = "Latest"
    THEN IF st[id] = <<>> THEN <<>> ELSE <<st[id][Len(st[id])]>>
    ELSE FirstAtOrAfter(st[id], when.t)

(* Batches: one slot, at most one record per identifier. *)

MaxTimeStep == 2

StoreSlots == {5, 6, 8}
StoreTimes == { 1000 + 5 * k : k \in 0..MaxTimeStep }
QueryTimes == StoreTimes \cup {1006, 2000}

\* What a batch may carry for each identifier, <<>> for no record or
\* <<publish_time>>: any of StoreTimes for IdX, 1000 for IdY.
Picks ==
    { [id \in StoreIds |-> IF id = IdX THEN tx ELSE ty] :
        tx \in {<<>>} \cup { <<t>> : t \in StoreTimes },
        ty \in {<<>>, <<1000>>} }

RawOf(message) == <<message.id, message.publish_time>>
ProofFor(slot, raw) == [wormhole_merkle_proof |-> <<slot, raw>>]

RecordOf(id, t, slot) ==
    LET message == Message(id.type_, id.price_id, t)
    IN  MessageState_new(message, RawOf(message),
                         ProofFor(slot, RawOf(message)), slot)

\* The records of the batch at `slot` that carries, for each identifier,
\* the publish_time pick[id] (or nothing), in the order of IdOrder.
RECURSIVE BatchRecords(_, _, _)
BatchRecords(ids, pick, slot) ==
    IF ids = <<>> THEN <<>>
    ELSE (IF pick[Head(ids)] = <<>> THEN <<>>
          ELSE <<RecordOf(Head(ids), pick[Head(ids)][1], slot)>>)
         \o BatchRecords(Tail(ids), pick, slot)

Range(seq) == { seq[i] : i \in DOMAIN seq }

InitStore ==
    /\ store = EmptyStore
    /\ last = [op |-> "none"]
    /\ ParkedDecode /\ ParkedRing /\ ParkedMessage /\ ParkedPipe

UpsertBatch(slot, pick) ==
    LET records == BatchRecords(IdOrder, pick, slot)
    IN  /\ store' = upsert_batch(store, records)
        /\ last' = [op |-> "upsert", slot |-> slot, pick |-> pick,
                    batch |-> records,
                    replaced |->
                       \E id \in StoreIds : \E e \in Range(store[id]) :
                          /\ e.slot = slot /\ pick[id] # <<>>
                          /\ e.publish_time # pick[id][1]]
        /\ UNCHANGED <<decodeVars, ringVars, messageVars, pipeVars>>

Query(id, when) ==
    /\ last' = [op |-> "query", id |-> id, when |-> when,
                result |-> query(store, id, when)]
    /\ UNCHANGED <<store, decodeVars, ringVars, messageVars, pipeVars>>

NextStore ==
    \/ \E slot \in StoreSlots, pick \in Picks :
          UpsertBatch(slot, pick)
    \/ \E id \in StoreIds, when \in {Latest} \cup { FirstAfter(t) : t \in QueryTimes } :
          Query(id, when)

SpecStore == InitStore /\ [][NextStore]_vars

\* C7: after any sequence of upsert_batch (any slot order, re-ingestion
\* of a present slot, possibly with another publish_time) every series
\* holds at most one MessageState per slot, the one last ingested for that
\* slot; re-ingesting an identical batch leaves every series unchanged.
C7_OnePerSlot ==
    /\ \A id \in StoreIds : \A i, j \in DOMAIN store[id] :
          i # j => store[id][i].slot # store[id][j].slot
    /\ last.op = "upsert" =>
          \A id \in StoreIds :
             last.pick[id] # <<>> =>
                LET at == { i \in DOMAIN store[id] : store[id][i].slot = last.slot }
                IN  /\ Cardinality(at) = 1
                    /\ \A i \in at :
                          /\ store[id][i].publish_time = last.pick[id][1]
                          /\ store[id][i].id = id

C7_ReingestUnchanged ==
    (/\ last.op = "upsert" /\ last'.op = "upsert"
     /\ last'.slot = last.slot /\ last'.batch = last.batch) => store' = store

\* C7: in every reachable store each series holds at most one MessageState
\* per slot (C7_OnePerSlot), and a step that re-ingests the batch just
\* ingested leaves the store unchanged (C7_ReingestUnchanged).
C7_UpsertIdempotentPerSlot == []C7_OnePerSlot /\ [][C7_ReingestUnchanged]_vars

\* A slot re-ingested with another publish_time, two entries in the series.
C7_Witness ==
    /\ last.op = "upsert" /\ last.replaced
    /\ Len(last.batch) = 2
    /\ Len(store[IdX]) = 2
    /\ store[IdX][1].slot > store[IdX][2].slot

\* C9: query(id, Latest) is the entry with the maximum (publish_time,
\* slot); query(id, FirstAfter(t)) is the entry with the smallest
\* (publish_time, slot) among those with publish_time >= t; nothing when
\* there is no such entry. For (slot 5, t 1000), (slot 6, t 1005),
\* (slot 8, t 1010): Latest and FirstAfter(1006) give (8, 1010),
\* FirstAfter(1000) gives (5, 1000), FirstAfter(2000) gives nothing.
C9_QueryLatestAndFirstAfter ==
    last.op = "query" =>
        LET entries == Range(store[last.id])
            le(a, b) == \/ a.publish_time < b.publish_time
                        \/ a.publish_time = b.publish_time /\ a.slot <= b.slot
            cand == IF last.when.kind = "Latest" THEN entries
                    ELSE { e \in entries : e.publish_time >= last.when.t }
            example == { <<e.slot, e.publish_time>> : e \in entries }
                          = { <<5, 1000>>, <<6, 1005>>, <<8, 1010>> }
            got == <<last.result[1].slot, last.result[1].publish_time>>
        IN  /\ last.result = <<>> <=> cand = {}
            /\ last.result # <<>> =>
                  /\ Len(last.result) = 1
                  /\ last.result[1] \in cand
                  /\ last.when.kind = "Latest" =>
                        \A e \in cand : le(e, last.result[1])
                  /\ last.when.kind = "FirstAfter" =>
                        \A e \in cand : le(last.result[1], e)
            /\ example =>
                  /\ last.when = Latest => got = <<8, 1010>>
                  /\ last.when = FirstAfter(1006) => got = <<8, 1010>>
                  /\ last.when = FirstAfter(1000) => got = <<5, 1000>>
                  /\ last.when = FirstAfter(2000) => last.result = <<>>

C9_Witness ==
    /\ last.op = "query" /\ last.id = IdX /\ last.when = FirstAfter(1006)
    /\ { <<e.slot, e.publish_time>> : e \in Range(store[IdX]) }
          = { <<5, 1000>>, <<6, 1005>>, <<8, 1010>> }
    /\ last.result # <<>>
    /\ last.result[1].slot = 8 /\ last.result[1].publish_time = 1010

---------------------------------------------------------------------------
(* Ingestion of one Update by the single writer, with readers querying the *)
(* published store at any moment:                                          *)
(*   Received -> Decoded -> per record Parsed, ProofBound -> Committed     *)
(* The pipeline is the specification's (4.5, 5, 7); Update, the decoder    *)
(* and the records are those of types.rs.                                  *)

MaxUpdates == 2

PipeSlots == {5, 6}

\* The 37-byte payload of a Vaa for `slot` (< 256), ring size 64.
HeaderFor(slot) ==
    <<65, 85, 87, 86>> \o <<0>> \o Rep(0, 7) \o <<slot>>
       \o <<0, 0, 0, 64>> \o Rep(0, 20)

\* A payload with a wrong magic.
BadHeaderFor(slot) ==
    <<65, 85, 87, 87>> \o <<0>> \o Rep(0, 7) \o <<slot>>
       \o <<0, 0, 0, 64>> \o Rep(0, 20)

Garbage == [parses |-> FALSE, id |-> IdX, t |-> 0]
RawRecord(id, t) == [parses |-> TRUE, id |-> id, t |-> t]

\* The raw records an Update may carry: for IdX nothing, a record at 1000
\* or 1005, or an unparseable record; for IdY nothing, a record at 1000,
\* or an unparseable record.
RawBatches ==
    { x \o y :
        x \in {<<>>, <<Garbage>>} \cup { <<RawRecord(IdX, t)>> : t \in {1000, 1005} },
        y \in {<<>>, <<Garbage>>, <<RawRecord(IdY, 1000)>>} }

\* enum Update { Vaa(Vec<u8>), AccumulatorMessages(AccumulatorMessages) },
\* with the raw records and the inclusion proofs that come with it.
Update_Vaa(payload, raws, nproofs) ==
    [kind |-> "Vaa", payload |-> payload, slot |-> 0,
     raws |-> raws, nproofs |-> nproofs]

Update_AccumulatorMessages(am, nproofs) ==
    [kind |-> "AccumulatorMessages", payload |-> <<>>, slot |-> am.slot,
     raws |-> am.messages, nproofs |-> nproofs]

Updates ==
    { Update_Vaa(h, raws, n) :
        h \in { HeaderFor(sl) : sl \in PipeSlots } \cup { BadHeaderFor(5) },
        raws \in RawBatches \ {<<>>}, n \in {1, 2} }
    \cup
    { Update_AccumulatorMessages(
          AccumulatorMessages(<<65, 85, 87, 86>>, sl, 64, raws), n) :
        sl \in PipeSlots, raws \in RawBatches \ {<<>>}, n \in {1, 2} }

Idle(status, error, batch) ==
    [status |-> status, error |-> error, batch |-> batch]

InitPipe ==
    /\ store = EmptyStore
    /\ last = [op |-> "none"]
    /\ pc = "idle"
    /\ update = Idle("none", "", <<>>)
    /\ staged = <<>>
    /\ nupd = 0
    /\ ParkedDecode /\ ParkedRing /\ ParkedMessage

Receive(u) ==
    /\ pc = "idle"
    /\ nupd < MaxUpdates
    /\ pc' = "received"
    /\ update' = u
    /\ staged' = <<>>
    /\ nupd' = nupd + 1
    /\ UNCHANGED <<store, last, decodeVars, ringVars, messageVars>>

\* The whole Update is dropped and the error surfaced.
Drop(error) ==
    /\ pc' = "idle"
    /\ update' = Idle("dropped", error, staged)
    /\ staged' = <<>>
    /\ UNCHANGED <<store, last, nupd, decodeVars, ringVars, messageVars>>

DecodeUpdate ==
    /\ pc = "received"
    /\ IF update.kind = "Vaa"
       THEN LET r == try_from_bytes(update.payload, update.payload)
            IN  IF r.kind # "Ok" THEN Drop(r.err)
                ELSE /\ pc' = "decoded"
                     /\ update' = [update EXCEPT !.slot = r.val[1].slot]
                     /\ UNCHANGED <<store, last, staged, nupd, decodeVars,
                                    ringVars, messageVars>>
       ELSE /\ pc' = "decoded"
            /\ UNCHANGED <<update, store, last, staged, nupd, decodeVars,
                           ringVars, messageVars>>

\* Parse the next raw record and bind its proof.
ParseAndBind ==
    /\ pc = "decoded"
    /\ Len(staged) < Len(update.raws)
    /\ LET i == Len(staged) + 1
           raw == update.raws[i]
       IN  IF ~raw.parses THEN Drop("ParseError")
           ELSE IF i > update.nproofs THEN Drop("BindingError")
           ELSE /\ staged' = Append(staged, RecordOf(raw.id, raw.t, update.slot))
                /\ UNCHANGED <<pc, update, store, last, nupd, decodeVars,
                               ringVars, messageVars>>

\* Publishes the first staged record only.
CommitFirstOnly ==
    /\ pc = "decoded"
    /\ Len(staged) = Len(update.raws)
    /\ store' = upsert_one(store, staged[1])
    /\ pc' = "idle"
    /\ update' = Idle("committed", "", staged)
    /\ staged' = <<>>
    /\ UNCHANGED <<last, nupd, decodeVars, ringVars, messageVars>>

\* The assembled batch becomes visible in one step.
Commit ==
    /\ pc = "decoded"
    /\ Len(staged) = Len(update.raws)
    /\ store' = upsert_batch(store, staged)
    /\ pc' = "idle"
    /\ update' = Idle("committed", "", staged)
    /\ staged' = <<>>
    /\ UNCHANGED <<last, nupd, decodeVars, ringVars, messageVars>>

\* A reader: one query against the published store.
Read(id, when) ==
    /\ pc # "off"
    /\ last' = [op |-> "query", id |-> id, when |-> when,
                result |-> query(store, id, when)]
    /\ UNCHANGED <<store, pipeVars, decodeVars, ringVars, messageVars>>

Next ==
    \/ \E u \in Updates : Receive(u)
    \/ DecodeUpdate
    \/ ParseAndBind
    \/ Commit
    \/ \E id \in StoreIds, when \in {Latest, FirstAfter(1005)} : Read(id, when)

Init == InitPipe

Spec == Init /\ [][Next]_vars

\* Whether the store holds record r in the series of r's own identifier.
Published(st, r) ==
    r \in Range(st[MessageIdentifier(r.message.id, r.message.variant)])

\* C8: the published store, which is what every reader's query reads,
\* changes only in the step that commits a fully assembled batch, and in
\* that step every record of the batch becomes visible at once; an Update
\* whose decoding, parsing or proof binding fails leaves the store as it
\* was when that Update was received.
C8_Step ==
    /\ store' # store =>
          /\ pc = "decoded" /\ pc' = "idle" /\ update'.status = "committed"
          /\ Len(update'.batch) = Len(update.raws)
          /\ \A i \in DOMAIN update'.batch : Published(store', update'.batch[i])
    /\ (pc # "idle" /\ pc' # "idle") => store' = store
    /\ (pc' = "idle" /\ update'.status = "dropped") => store' = store

\* C8: every step of the writer and the readers satisfies C8_Step, so no
\* published store holds part of a batch and a failed Update changes nothing.
C8_AtomicBatchVisibility == [][C8_Step]_vars

C8_Witness ==
    /\ pc = "idle" /\ update.status = "committed"
    /\ Len(update.batch) = 2
    /\ \A i \in 1..2 : Published(store, update.batch[i])
    /\ last.op = "query" /\ last.id = IdY /\ last.result = <<>>

---------------------------------------------------------------------------
(* Claims about the decoder.                                               *)

RECURSIVE ShiftBytes(_, _)
ShiftBytes(v, k) == IF k = 0 THEN v ELSE ShiftBytes(v \div 256, k - 1)

\* The n-byte big-endian encoding of v.
BigEndian(v, n) == [i \in 1..n |-> ShiftBytes(v, n - i) % 256]

MagicBytes == <<65, 85, 87, 86>>

Called == decoded # <<>>
Outcome == decoded[1]

ValidHeader(bs) ==
    Len(bs) = 37 /\ SubSeq(bs, 1, 4) = MagicBytes /\ bs[5] = 0

\* C1: a 37-byte buffer with the magic 0x41555756 and type byte 0 decodes,
\* for any vaa, to Merkle{slot, ring_size, root, vaa} with slot the
\* big-endian u64 of bytes [5,13), ring_size the big-endian u32 of bytes
\* [13,17) (0 included), root bytes [17,37) verbatim and vaa unchanged.
C1_DecodeReproducesFields ==
    (Called /\ ValidHeader(bytes)) =>
        /\ Outcome.kind = "Ok"
        /\ LET p == Outcome.val[1]
           IN  /\ DOMAIN p = {"root", "slot", "ring_size", "vaa"}
               /\ p.slot >= 0 /\ BigEndian(p.slot, 8) = SubSeq(bytes, 6, 13)
               /\ p.ring_size >= 0
               /\ BigEndian(p.ring_size, 4) = SubSeq(bytes, 14, 17)
               /\ Len(p.root) = 20
               /\ \A i \in 1..20 : p.root[i] = bytes[17 + i]
               /\ p.vaa = vaa_bytes

C1_Witness ==
    /\ Called /\ ValidHeader(bytes) /\ Outcome.kind = "Ok"
    /\ Outcome.val[1].slot = 16909060       \* 0x01020304
    /\ Outcome.val[1].ring_size = 0
    /\ Outcome.val[1].root[20] = 20
    /\ Outcome.val[1].vaa = <<1, 0, 255>>

\* C2: try_from_bytes never panics and never returns a payload for an
\* invalid buffer: a length other than 37 (0 included) gives the
\* invalid-length error, 37 bytes with a wrong magic the invalid-magic
\* error, 37 bytes with the magic and a non-zero byte 4 the
\* unsupported-message-type error; an error carries no payload.
C2_InvalidBufferIsError ==
    Called =>
        /\ Outcome.kind # "Panic"
        /\ Outcome.kind = "Err" => Outcome.val = <<>>
        /\ Len(bytes) # 37 =>
               Outcome.kind = "Err" /\ Outcome.err = "Invalid message length"
        /\ (Len(bytes) = 37 /\ SubSeq(bytes, 1, 4) # MagicBytes) =>
               Outcome.kind = "Err" /\ Outcome.err = "Invalid magic"
        /\ (Len(bytes) = 37 /\ SubSeq(bytes, 1, 4) = MagicBytes /\ bytes[5] # 0) =>
               Outcome.kind = "Err" /\ Outcome.err = "Invalid message type"

C2_Witness ==
    /\ Called /\ Len(bytes) = 0
    /\ Outcome = Err("Invalid message length")

\* C10: validation order is length, magic, message type, and only the
\* first violated constraint is reported: a buffer of the wrong length
\* reports the length error whatever its content, a 37-byte buffer with a
\* wrong magic and a non-zero type reports the magic error; the call
\* succeeds exactly when length, magic and type are right, whatever the
\* slot, ring_size, root bytes and the vaa.
C10_FirstViolationReported ==
    Called =>
        /\ (Len(bytes) # 37 /\ Len(bytes) >= 5
              /\ (SubSeq(bytes, 1, 4) # MagicBytes \/ bytes[5] # 0)) =>
               Outcome.err = "Invalid message length"
        /\ (Len(bytes) = 37 /\ SubSeq(bytes, 1, 4) # MagicBytes /\ bytes[5] # 0) =>
               Outcome.err = "Invalid magic"
        /\ Outcome.err = "Invalid message type" =>
               (Len(bytes) = 37 /\ SubSeq(bytes, 1, 4) = MagicBytes)
        /\ Outcome.kind = "Ok" <=> ValidHeader(bytes)

C10_Witness ==
    /\ Called /\ Len(bytes) = 37
    /\ SubSeq(bytes, 1, 4) = <<86, 87, 85, 65>> /\ bytes[5] = 255
    /\ Outcome = Err("Invalid magic")

=============================================================================
